---- MODULE Spec2Model ----
(***************************************************************************)
(* Model of the dataset builders of may-/datasets: KFTT, JParaCrawl and    *)
(* IWSLT14.  Each builder has a config constructor that validates the      *)
(* language pair, a locator (_split_generators) and a generator            *)
(* (_generate_examples).  Texts are sequences of one-character strings,    *)
(* dictionaries are sequences of <<key, value>> entries in insertion order *)
(* (Python dicts keep it), None is the empty tuple and a present value x   *)
(* is <<x>>.                                                               *)
(***************************************************************************)
EXTENDS Integers, Sequences, FiniteSets, TLC

VARIABLES
    corpus,            \* which builder / function this behaviour runs
    pc,                \* position of the running generator or call
    error,             \* "" or the name of the exception that ended it
    out,               \* the (id, record) pairs yielded so far, in order
    files,             \* KFTT, JParaCrawl: the archive members still to be iterated
    source_sentences,  \* KFTT: None or <<lines>>
    target_sentences,  \* KFTT: None or <<lines>>
    idx,               \* KFTT: position of enumerate(zip(...)); JParaCrawl: the row index
    source_files,      \* IWSLT14: the source paths zip() has not reached yet
    target_files,      \* IWSLT14: the target paths zip() has not reached yet
    src,               \* IWSLT14: the mapping parsed from the source file
    trg,               \* IWSLT14: the mapping parsed from the target file
    it,                \* IWSLT14: entries of src.items() already visited
    id_,               \* IWSLT14: the running example id
    fs,                \* IWSLT14: None (the files hold any content) or
                       \*   <<[source, target]>>, the contents of the one pair
    dfs,               \* JParaCrawl: None (unbound) or <<rows>>, what read_csv gave
    arg,               \* constructor and function calls: the argument
    ret,               \* constructor and function calls: None or <<result>>
    splits             \* _split_generators: the SplitGenerators returned

kfttVars == <<files, source_sentences, target_sentences, idx>>

iwsltVars == <<source_files, target_files, src, trg, it, id_, fs>>

callVars == <<arg, ret, splits>>

vars == <<corpus, pc, error, out, kfttVars, iwsltVars, dfs, callVars>>

(***************************************************************************)
(* Bounds of the model.                                                    *)
(***************************************************************************)
MaxLen == 3

MaxLines == 6

MaxNodes == 5

MaxFileNodes == 3

MaxPairs == 2

MaxPairNodes == 2

MaxRows == 2

(***************************************************************************)
(* Python values.                                                          *)
(***************************************************************************)
None == <<>>

Some(x) == <<x>>

\* Sequences over S of length at most n.
SeqsUpTo(S, n) == UNION {[1..k -> S] : k \in 0..n}

\* Truth value of a dict: a dict is falsy only when it has no key.
TruthyDict(d) == DOMAIN d # {}

(***************************************************************************)
(* KFTT._generate_examples                                                 *)
(***************************************************************************)
Chars == {"a", " ", "\n"}

Contents == SeqsUpTo(Chars, MaxLen)

\* str.split("\n"): the pieces between the separators; always at least one
\* piece, and a text that ends with the separator has a last empty piece.
RECURSIVE SplitFrom(_, _, _)
SplitFrom(s, i, cur) ==
    IF i > Len(s) THEN <<cur>>
    ELSE IF s[i] = "\n" THEN <<cur>> \o SplitFrom(s, i + 1, <<>>)
    ELSE SplitFrom(s, i + 1, Append(cur, s[i]))

Split(s) == SplitFrom(s, 1, <<>>)

source_file == "kftt-data-1.0/data/orig/kyoto-train.en"

target_file == "kftt-data-1.0/data/orig/kyoto-train.ja"

other_file == "kftt-data-1.0/README"

Paths == {source_file, target_file, other_file}

\* The paths of the members of an archive, in archive order: any sequence
\* of up to three, a path possibly more than once.
Layouts == SeqsUpTo(Paths, Cardinality(Paths))

\* An archive: the members (path, content) in the order ps; the two corpus
\* files hold the contents cs and ct, the other member a fixed one.
Archive(ps, cs, ct) ==
    [i \in DOMAIN ps |->
        [path |-> ps[i],
         content |-> IF ps[i] = source_file THEN cs
                     ELSE IF ps[i] = target_file THEN ct
                     ELSE <<"a">>]]

KFTTInit ==
    /\ corpus = "kftt"
    /\ pc = "scan"
    /\ error = ""
    /\ out = <<>>
    /\ \E ps \in Layouts, cs \in Contents, ct \in Contents : files = Archive(ps, cs, ct)
    /\ source_sentences = None
    /\ target_sentences = None
    /\ idx = 0
    /\ source_files = <<>> /\ target_files = <<>>
    /\ src = <<>> /\ trg = <<>> /\ it = 0 /\ id_ = 0 /\ dfs = None /\ fs = None
    /\ arg = None /\ ret = None /\ splits = <<>>

\* Mutant: the loop has no break and reads on after both files were read.
KFTTScanNoBreak ==
    /\ corpus = "kftt" /\ pc = "scan"
    /\ files # <<>>
    /\ LET m == Head(files)
       IN /\ source_sentences' = IF m.path = source_file THEN Some(Split(m.content))
                                 ELSE source_sentences
          /\ target_sentences' = IF m.path # source_file /\ m.path = target_file
                                 THEN Some(Split(m.content))
                                 ELSE target_sentences
          /\ files' = Tail(files)
          /\ pc' = "scan"
    /\ UNCHANGED <<corpus, dfs, error, out, idx, iwsltVars, callVars>>

\* One iteration of `for path, f in files` (lines 115-121).
KFTTScan ==
    /\ corpus = "kftt" /\ pc = "scan"
    /\ files # <<>>
    /\ LET m == Head(files)
           newSrc == IF m.path = source_file THEN Some(Split(m.content))
                     ELSE source_sentences
           newTgt == IF m.path # source_file /\ m.path = target_file
                     THEN Some(Split(m.content))
                     ELSE target_sentences
       IN /\ source_sentences' = newSrc
          /\ target_sentences' = newTgt
          /\ files' = Tail(files)
          /\ pc' = IF newSrc # None /\ newTgt # None THEN "check" ELSE "scan"
    /\ UNCHANGED <<corpus, dfs, error, out, idx, iwsltVars, callVars>>

\* The archive is exhausted without a break: the loop ends normally.
KFTTScanEnd ==
    /\ corpus = "kftt" /\ pc = "scan"
    /\ files = <<>>
    /\ pc' = "check"
    /\ UNCHANGED <<corpus, dfs, error, out, kfttVars, iwsltVars, callVars>>

\* Mutant: the size assertion is dropped and zip() truncates in silence.
KFTTAssertSizesDropped ==
    IF source_sentences = None \/ target_sentences = None THEN "TypeError" ELSE ""

\* The size assertion (lines 123-128); len(None) is a TypeError.
KFTTAssertSizes ==
    IF source_sentences = None \/ target_sentences = None THEN "TypeError"
    ELSE IF Len(target_sentences[1]) = Len(source_sentences[1]) THEN ""
    ELSE "AssertionError"

KFTTCheck ==
    /\ corpus = "kftt" /\ pc = "check"
    /\ error' = KFTTAssertSizes
    /\ pc' = IF KFTTAssertSizes = "" THEN "emit" ELSE "failed"
    /\ UNCHANGED <<corpus, dfs, out, kfttVars, iwsltVars, callVars>>

\* zip(source_sentences, target_sentences): stops at the shorter one.
ZipLen(a, b) == IF Len(a) <= Len(b) THEN Len(a) ELSE Len(b)

\* result = {"translation": {source: l1, target: l2}} (line 132).
KFTTResult(l1, l2) == [translation |-> [source |-> l1, target |-> l2]]

\* all(result.values()) (line 134): the values of result are its one inner
\* dict, which always has two keys.
KFTTKeep(result) == \A k \in DOMAIN result : TruthyDict(result[k])

\* One iteration of the enumerate(zip(...)) loop (lines 131-135).
KFTTStep ==
    /\ corpus = "kftt" /\ pc = "emit"
    /\ idx < ZipLen(source_sentences[1], target_sentences[1])
    /\ LET result == KFTTResult(source_sentences[1][idx + 1],
                                target_sentences[1][idx + 1])
       IN out' = IF KFTTKeep(result)
                 THEN Append(out, [id_ |-> idx, rec |-> result])
                 ELSE out
    /\ idx' = idx + 1
    /\ UNCHANGED <<corpus, dfs, pc, error, files, source_sentences, target_sentences,
                   iwsltVars, callVars>>

KFTTFinish ==
    /\ corpus = "kftt" /\ pc = "emit"
    /\ idx >= ZipLen(source_sentences[1], target_sentences[1])
    /\ pc' = "done"
    /\ UNCHANGED <<corpus, dfs, error, out, kfttVars, iwsltVars, callVars>>

KFTTNext == KFTTScan \/ KFTTScanEnd \/ KFTTCheck \/ KFTTStep \/ KFTTFinish

(***************************************************************************)
(* Dictionaries and strings used by the IWSLT14 parsers.                   *)
(***************************************************************************)
DictKeys(d) == {d[i][1] : i \in DOMAIN d}

DictHas(d, k) == \E i \in DOMAIN d : d[i][1] = k

\* Mutant: the lookup ignores the key and takes the first value.
DictGetFirst(d, k) == d[1][2]

\* d[k]
DictGet(d, k) == d[CHOOSE i \in DOMAIN d : d[i][1] = k][2]

\* Mutant: an existing key keeps its first value.
DictSetKeepFirst(d, k, v) ==
    IF DictHas(d, k) THEN d ELSE Append(d, <<k, v>>)

\* d[k] = v: an existing key keeps its place and takes the new value, a new
\* key goes last.
DictSet(d, k, v) ==
    IF DictHas(d, k)
    THEN [i \in DOMAIN d |-> IF d[i][1] = k THEN <<k, v>> ELSE d[i]]
    ELSE Append(d, <<k, v>>)

\* A character of a text is a one-character string; a character that no
\* string of this module can hold is written by the name of its code point.
\* The whitespace of str.isspace(), which str.strip() removes: U+0009 to
\* U+000D, U+001C to U+001F, U+0020, U+0085, U+00A0, U+1680, U+2000 to
\* U+200A, U+2028, U+2029, U+202F, U+205F and U+3000.
WhiteSpace ==
    {"\t", "\n", "\f", "\r", " "}
        \cup {"U+000B", "U+001C", "U+001D", "U+001E", "U+001F", "U+0085", "U+00A0",
               "U+1680", "U+2000", "U+2001", "U+2002", "U+2003", "U+2004", "U+2005",
               "U+2006", "U+2007", "U+2008", "U+2009", "U+200A", "U+2028", "U+2029",
               "U+202F", "U+205F", "U+3000"}

\* c.isspace()
IsSpace(c) == c \in WhiteSpace

RECURSIVE LStrip(_)
LStrip(t) == IF t # <<>> /\ IsSpace(Head(t)) THEN LStrip(Tail(t)) ELSE t

RECURSIVE RStrip(_)
RStrip(t) ==
    IF t # <<>> /\ IsSpace(t[Len(t)]) THEN RStrip(SubSeq(t, 1, Len(t) - 1)) ELSE t

\* str.strip()
Strip(t) == RStrip(LStrip(t))

Texts == {<<"a">>, <<" ", "b", " ">>, <<" ">>}

(***************************************************************************)
(* IWSLT14._generate_examples._parse_doc: the inline-segment format.       *)
(* A line is [tag, text]: tag "" is a bare line (it does not start with    *)
(* '<'), any other tag is a markup line <tag>text</tag>.                   *)
(***************************************************************************)
TagLines ==
    [tag : {""}, text : Texts]
        \cup [tag : {"url", "keywords"}, text : {<<"a">>}]

\* Lines 139-141: a bare line is wrapped as a seg element; the parsed lines
\* are siblings in document order.
SoupOfLines(lines) ==
    [i \in DOMAIN lines |->
        IF lines[i].tag = "" THEN [name |-> "seg", text |-> lines[i].text]
        ELSE [name |-> lines[i].tag, text |-> lines[i].text]]

\* Mutant: the segment index starts at 0.
DocSegKeyZeroBased(docid, segid) ==
    "docid-" \o ToString(docid) \o "_segid-" \o ToString(segid - 1)

DocSegKey(docid, segid) ==
    "docid-" \o ToString(docid) \o "_segid-" \o ToString(segid)

\* The while loop of lines 148-151, from sibling s with segid segments seen.
RECURSIVE WalkSegs(_, _, _, _, _)
WalkSegs(soup, s, docid, segid, docs) ==
    IF s + 1 <= Len(soup) /\ soup[s + 1].name = "seg"
    THEN WalkSegs(soup, s + 1, docid, segid + 1,
                  DictSet(docs, DocSegKey(docid, segid + 1), Strip(soup[s + 1].text)))
    ELSE docs

\* The for loop of lines 144-151 over the url elements, from position p.
RECURSIVE ParseDocFrom(_, _, _, _)
ParseDocFrom(soup, p, docid, docs) ==
    IF p > Len(soup) THEN docs
    ELSE IF soup[p].name = "url"
    THEN ParseDocFrom(soup, p + 1, docid + 1, WalkSegs(soup, p, docid + 1, 0, docs))
    ELSE ParseDocFrom(soup, p + 1, docid, docs)

_parse_doc(lines) == [err |-> "", docs |-> ParseDocFrom(SoupOfLines(lines), 1, 0, <<>>)]

(***************************************************************************)
(* IWSLT14._generate_examples._parse_xml: the structured-doc format.       *)
(* A file is the sequence of its elements in document order; a doc element *)
(* holds the elements that follow it up to the next doc element.  attrs is *)
(* the element's attribute dictionary, a function on the attribute names   *)
(* it carries.                                                             *)
(***************************************************************************)
DocIds == {"5", "6"}

NoAttrs == <<>>

XmlNodes ==
    {[name |-> "doc", attrs |-> [docid |-> d], text |-> <<>>] : d \in DocIds}
        \cup {[name |-> "doc", attrs |-> NoAttrs, text |-> <<>>]}
        \cup [name : {"title", "description"}, attrs : {NoAttrs},
               text : {<<"a">>, <<" ", "b", " ">>}]
        \cup {[name |-> "seg", attrs |-> [id |-> "1"], text |-> t] :
                t \in {<<"a">>, <<" ", "b", " ">>}}
        \cup {[name |-> "seg", attrs |-> [id |-> "2"], text |-> <<" ">>]}
        \cup {[name |-> "seg", attrs |-> NoAttrs, text |-> <<"a">>]}
        \cup {[name |-> "url", attrs |-> NoAttrs, text |-> <<"a">>]}

\* soup.find_all('doc'): the positions of the doc elements, in order.
DocPositions(nodes) == {p \in DOMAIN nodes : nodes[p].name = "doc"}

\* Last position of the doc element that starts at p.
DocEnd(nodes, p) ==
    IF \E q \in DocPositions(nodes) : q > p
    THEN (CHOOSE q \in DocPositions(nodes) :
            q > p /\ \A r \in DocPositions(nodes) : r > p => q <= r) - 1
    ELSE Len(nodes)

\* Mutant: the search runs over the whole document, not over the doc.
FindAllInSoup(nodes, p, name) == SelectSeq(nodes, LAMBDA n : n.name = name)

\* doc.find_all(name): the elements of that name inside the doc, in order.
FindAll(nodes, p, name) ==
    SelectSeq(SubSeq(nodes, p + 1, DocEnd(nodes, p)), LAMBDA n : n.name = name)

TitleKey(docid) == "docid-" \o docid \o "_title"

DescKey(docid) == "docid-" \o docid \o "_desc"

SegKey(docid, segid) == "docid-" \o docid \o "_segid-" \o segid

\* for x in found: docs[key] = x.text.strip()     (lines 160-163)
RECURSIVE SetAll(_, _, _)
SetAll(docs, key, found) ==
    IF found = <<>> THEN docs
    ELSE SetAll(DictSet(docs, key, Strip(Head(found).text)), key, Tail(found))

\* Mutant: a seg without an id is skipped instead of raising.
RECURSIVE SetSegsSkipping(_, _, _)
SetSegsSkipping(r, docid, found) ==
    IF found = <<>> THEN r
    ELSE IF "id" \notin DOMAIN Head(found).attrs
    THEN SetSegsSkipping(r, docid, Tail(found))
    ELSE SetSegsSkipping([err |-> "",
                          docs |-> DictSet(r.docs, SegKey(docid, Head(found).attrs.id),
                                           Strip(Head(found).text))],
                         docid, Tail(found))

\* for seg in doc.find_all('seg')     (lines 164-166); seg.attrs['id'] of a
\* seg without that attribute is a KeyError.
RECURSIVE SetSegs(_, _, _)
SetSegs(r, docid, found) ==
    IF r.err # "" \/ found = <<>> THEN r
    ELSE IF "id" \notin DOMAIN Head(found).attrs
    THEN [err |-> "KeyError", docs |-> <<>>]
    ELSE SetSegs([err |-> "",
                  docs |-> DictSet(r.docs, SegKey(docid, Head(found).attrs.id),
                                   Strip(Head(found).text))],
                 docid, Tail(found))

\* The body of `for doc in soup.find_all('doc')` for the doc at p
\* (lines 159-166); doc.attrs['docid'] of a doc without it is a KeyError.
ParseOneDoc(nodes, p, docs) ==
    IF "docid" \notin DOMAIN nodes[p].attrs
    THEN [err |-> "KeyError", docs |-> <<>>]
    ELSE LET docid == nodes[p].attrs.docid
             d1 == SetAll(docs, TitleKey(docid), FindAll(nodes, p, "title"))
             d2 == SetAll(d1, DescKey(docid), FindAll(nodes, p, "description"))
         IN SetSegs([err |-> "", docs |-> d2], docid, FindAll(nodes, p, "seg"))

RECURSIVE ParseXmlFrom(_, _, _)
ParseXmlFrom(nodes, p, r) ==
    IF r.err # "" \/ p > Len(nodes) THEN r
    ELSE IF nodes[p].name = "doc"
    THEN ParseXmlFrom(nodes, p + 1, ParseOneDoc(nodes, p, r.docs))
    ELSE ParseXmlFrom(nodes, p + 1, r)

_parse_xml(nodes) == ParseXmlFrom(nodes, 1, [err |-> "", docs |-> <<>>])

(***************************************************************************)
(* IWSLT14._generate_examples: keyed alignment of the file pairs.          *)
(***************************************************************************)
XmlPath == "IWSLT14.TED.dev2010.de-en.de.xml"

TagsPath == "train.tags.de-en.de"

IWSLTPaths == {XmlPath, TagsPath}

\* A file of the test split, which lists several file pairs.
TestPath == "IWSLT14.TED.tst2010.de-en.de.xml"

\* file_path.endswith('.xml') (line 170)
EndsWithXml(path) ==
    Len(path) >= 4 /\ SubSeq(path, Len(path) - 3, Len(path)) = ".xml"

\* _parse (lines 169-173)
_parse(path, content) ==
    IF EndsWithXml(path) THEN _parse_xml(content) ELSE _parse_doc(content)

\* The elements of the files the generator reads in this model: docs with
\* and without an id, a title, and the segs (with and without an id, with
\* clean, padded and blank text).
FileNodes ==
    {n \in XmlNodes :
        \/ n.name = "doc" /\ n.attrs \in {[docid |-> "5"], NoAttrs}
        \/ n.name = "title" /\ n.text = <<"a">>
        \/ n.name = "seg"}

\* What reading and parsing the file at a path can give: the file holds any
\* content of its format with at most MaxFileNodes elements or lines.
ParsedXmlFiles == {_parse(XmlPath, c) : c \in SeqsUpTo(FileNodes, MaxFileNodes)}

ParsedTagsFiles == {_parse(TagsPath, c) : c \in SeqsUpTo(TagLines, MaxFileNodes)}

\* The elements of the files of the test split in this model: a doc with
\* and without its id and the segs that carry an id, so that the files of
\* different pairs share keys or not.
SplitNodes ==
    {n \in FileNodes :
        \/ n.name = "doc"
        \/ n.name = "seg" /\ n.attrs # NoAttrs}

ParsedTestFiles == {_parse(TestPath, c) : c \in SeqsUpTo(SplitNodes, MaxFileNodes)}

\* src = _parse(source_file) / trg = _parse(target_file) (lines 181-182):
\* the results the call can give for the file on disk.
ReadAndParse(path, side) ==
    IF fs # None THEN {_parse(path, fs[1][side])}
    ELSE IF path = TestPath THEN ParsedTestFiles
    ELSE IF EndsWithXml(path) THEN ParsedXmlFiles
    ELSE ParsedTagsFiles

IWSLTInitOver(paths, n) ==
    /\ corpus = "iwslt14"
    /\ pc = "next"
    /\ error = ""
    /\ out = <<>>
    /\ source_files \in SeqsUpTo(paths, n)
    /\ target_files \in SeqsUpTo(paths, n)
    /\ src = <<>> /\ trg = <<>> /\ it = 0 /\ id_ = 0 /\ dfs = None /\ fs = None
    /\ files = <<>> /\ source_sentences = None /\ target_sentences = None /\ idx = 0
    /\ arg = None /\ ret = None /\ splits = <<>>

\* A split of at most one file on each side (the train split has one).
IWSLTInit == IWSLTInitOver(IWSLTPaths, 1)

\* The test split, of up to MaxPairs files on each side.
SplitInit == IWSLTInitOver({TestPath}, MaxPairs)

\* The generator run on one pair of structured-doc files whose contents, of
\* at most MaxPairNodes elements each, are fixed from the start.
PairInit ==
    /\ corpus = "iwslt14"
    /\ pc = "next"
    /\ error = ""
    /\ out = <<>>
    /\ source_files = <<XmlPath>>
    /\ target_files = <<XmlPath>>
    /\ src = <<>> /\ trg = <<>> /\ it = 0 /\ id_ = 0 /\ dfs = None
    /\ \E m, n \in 0..MaxPairNodes :
          \E s \in [1..m -> FileNodes], t \in [1..n -> FileNodes] :
              fs = Some([source |-> s, target |-> t])
    /\ files = <<>> /\ source_sentences = None /\ target_sentences = None /\ idx = 0
    /\ arg = None /\ ret = None /\ splits = <<>>

\* The next pair of zip(source_files, target_files) is read and parsed
\* (lines 180-182); a parser's exception ends the generator.  The source
\* file is parsed first: when it raises, the target file is not read; when
\* the target file raises, src is already assigned.
IWSLTOpen ==
    /\ corpus = "iwslt14" /\ pc = "next"
    /\ source_files # <<>> /\ target_files # <<>>
    /\ \E rs \in ReadAndParse(Head(source_files), "source"),
          rt \in ReadAndParse(Head(target_files), "target") :
          IF rs.err # ""
          THEN /\ pc' = "failed"
               /\ error' = rs.err
               /\ UNCHANGED <<src, trg, it>>
          ELSE IF rt.err # ""
          THEN /\ pc' = "failed"
               /\ error' = rt.err
               /\ src' = rs.docs
               /\ UNCHANGED <<trg, it>>
          ELSE /\ pc' = "items"
               /\ src' = rs.docs
               /\ trg' = rt.docs
               /\ it' = 0
               /\ UNCHANGED error
    /\ source_files' = Tail(source_files)
    /\ target_files' = Tail(target_files)
    /\ UNCHANGED <<corpus, dfs, out, id_, fs, kfttVars, callVars>>

\* The record yielded for key k (lines 188-191).
IWSLTRecord(k, src_sent, trg_sent) ==
    [id |-> k, translation |-> [source |-> src_sent, target |-> trg_sent]]

\* `if k in trg` (line 185)
InTrg(k, t) == DictHas(t, k)

\* One iteration of `for k, src_sent in src.items()` up to the yield
\* (lines 184-191): the next item is taken; when its key is in trg the
\* record is yielded with the current id_ and the generator is suspended
\* there, otherwise the loop goes on.
IWSLTItem ==
    /\ corpus = "iwslt14" /\ pc = "items"
    /\ it < Len(src)
    /\ LET k == src[it + 1][1]
           src_sent == src[it + 1][2]
       IN IF InTrg(k, trg)
          THEN /\ out' = Append(out, [id_ |-> id_,
                                      rec |-> IWSLTRecord(k, src_sent, DictGet(trg, k))])
               /\ pc' = "yielded"
          ELSE UNCHANGED <<out, pc>>
    /\ it' = it + 1
    /\ UNCHANGED <<corpus, dfs, error, source_files, target_files, src, trg, id_, fs,
                   kfttVars, callVars>>

\* The consumer asks for the next record: the generator resumes after the
\* yield with `id_ += 1` (line 192) and is back at the loop header.
IWSLTResume ==
    /\ corpus = "iwslt14" /\ pc = "yielded"
    /\ id_' = id_ + 1
    /\ pc' = "items"
    /\ UNCHANGED <<corpus, dfs, error, out, source_files, target_files, src, trg, it,
                   fs, kfttVars, callVars>>

\* Mutant: the counter starts again at 0 for each file pair.
IWSLTPairEndReset ==
    /\ corpus = "iwslt14" /\ pc = "items"
    /\ it >= Len(src)
    /\ pc' = "next"
    /\ id_' = 0
    /\ UNCHANGED <<corpus, dfs, error, out, source_files, target_files, src, trg, it,
                   fs, kfttVars, callVars>>

\* src.items() is exhausted: back to the zip loop.
IWSLTPairEnd ==
    /\ corpus = "iwslt14" /\ pc = "items"
    /\ it >= Len(src)
    /\ pc' = "next"
    /\ UNCHANGED <<corpus, dfs, error, out, iwsltVars, kfttVars, callVars>>

\* zip() is exhausted: the generator returns.
IWSLTFinish ==
    /\ corpus = "iwslt14" /\ pc = "next"
    /\ source_files = <<>> \/ target_files = <<>>
    /\ pc' = "done"
    /\ UNCHANGED <<corpus, dfs, error, out, iwsltVars, kfttVars, callVars>>

IWSLTNext == IWSLTOpen \/ IWSLTItem \/ IWSLTResume \/ IWSLTPairEnd \/ IWSLTFinish

(***************************************************************************)
(* The builder configs and the locators (_split_generators).               *)
(* A language pair is a 2-tuple of language codes; "None" stands for the   *)
(* None of the default pair (None, None).  A path is the tuple of the      *)
(* pieces its template is filled with; PathString joins them.              *)
(***************************************************************************)
_LANGUAGES ==
    <<"ar", "de", "es", "fa", "he", "it", "nl", "pl", "pt-br", "ro", "ru", "sl",
      "tr", "zh">>

\* [(lang, "en") for lang in _LANGUAGES] + [("en", lang) for lang in _LANGUAGES]
_PAIRS ==
    [i \in DOMAIN _LANGUAGES |-> <<_LANGUAGES[i], "en">>]
        \o [i \in DOMAIN _LANGUAGES |-> <<"en", _LANGUAGES[i]>>]

\* x in <tuple or list>
In(x, xs) == \E i \in DOMAIN xs : xs[i] = x

\* "%s-%s" % (language_pair[0], language_pair[1])
PairName(language_pair) == language_pair[1] \o "-" \o language_pair[2]

\* The assertion of IWSLT14Config.__init__ (line 64).
IWSLT14Valid(language_pair) == In(language_pair, _PAIRS)

\* The assertions of KFTTConfig.__init__ (lines 63-64).
KFTTValid(language_pair) == In("en", language_pair) /\ In("ja", language_pair)

\* Mutant: the non-English language is always taken from the target side.
JParaCrawlNonEnTarget(language_pair) == language_pair[2]

\* non_en = source if target == "en" else target
JParaCrawlNonEn(language_pair) ==
    IF language_pair[2] = "en" THEN language_pair[1] ELSE language_pair[2]

\* The assertions of JParaCrawlConfig.__init__ (lines 89-92).
JParaCrawlValid(language_pair) ==
    In("en", language_pair) /\ In(JParaCrawlNonEn(language_pair), <<"ja", "zh">>)

Valid(c, language_pair) ==
    IF c = "IWSLT14" THEN IWSLT14Valid(language_pair)
    ELSE IF c = "KFTT" THEN KFTTValid(language_pair)
    ELSE JParaCrawlValid(language_pair)

LangCodes == {_LANGUAGES[i] : i \in DOMAIN _LANGUAGES} \cup {"en", "ja", "fr", "None"}

DlDirs == {"/cache/extracted/1", "/cache/extracted/2"}

BuilderInit ==
    /\ corpus \in {"IWSLT14", "KFTT", "JParaCrawl"}
    /\ pc = "new"
    /\ error = ""
    /\ arg \in {Some(a) : a \in [language_pair : LangCodes \X LangCodes, dl_dir : DlDirs]}
    /\ ret = None
    /\ splits = <<>>
    /\ out = <<>>
    /\ files = <<>> /\ source_sentences = None /\ target_sentences = None /\ idx = 0
    /\ source_files = <<>> /\ target_files = <<>>
    /\ src = <<>> /\ trg = <<>> /\ it = 0 /\ id_ = 0 /\ dfs = None /\ fs = None

\* <Corpus>Config.__init__: the name is set by the base class, the pair is
\* validated, and only then stored.  A failed assertion leaves no config.
Construct ==
    /\ pc = "new"
    /\ LET language_pair == arg[1].language_pair
       IN IF Valid(corpus, language_pair)
          THEN /\ ret' = Some([name |-> PairName(language_pair),
                               language_pair |-> language_pair])
               /\ pc' = "configured"
               /\ UNCHANGED error
          ELSE /\ ret' = None
               /\ pc' = "failed"
               /\ error' = "AssertionError"
    /\ UNCHANGED <<corpus, dfs, out, arg, splits, kfttVars, iwsltVars>>

\* The string a path's pieces make.
RECURSIVE PathString(_)
PathString(p) == IF p = <<>> THEN "" ELSE Head(p) \o PathString(Tail(p))

\* IWSLT14 path_tmpl % (year, lang) (line 104)
IWSLT14Xml(dl_dir, pair, year, lang) ==
    <<dl_dir, "/", pair, "/IWSLT14.", year, ".", pair, ".", lang, ".xml">>

\* f"{dl_dir}/{pair}/train.tags.{pair}.{lang}" (lines 111-112)
IWSLT14Train(dl_dir, pair, lang) ==
    <<dl_dir, "/", pair, "/train.tags.", pair, ".", lang>>

\* subsets (lines 105-108)
Subsets(name) ==
    IF name = "dev" THEN <<"TED.dev2010", "TEDX.dev2012">>
    ELSE <<"TED.tst2010", "TED.tst2011", "TED.tst2012">>

\* Mutant: the target list is built from the source language.
IWSLT14FilesSameLang(dl_dir, pair, name, lang_source, lang_target) ==
    [source_files |-> [i \in DOMAIN Subsets(name) |->
                          IWSLT14Xml(dl_dir, pair, Subsets(name)[i], lang_source)],
     target_files |-> [i \in DOMAIN Subsets(name) |->
                          IWSLT14Xml(dl_dir, pair, Subsets(name)[i], lang_source)],
     split |-> IF name = "dev" THEN "validation" ELSE "test"]

\* files["dev"] and files["test"] (lines 115-124)
IWSLT14Files(dl_dir, pair, name, lang_source, lang_target) ==
    [source_files |-> [i \in DOMAIN Subsets(name) |->
                          IWSLT14Xml(dl_dir, pair, Subsets(name)[i], lang_source)],
     target_files |-> [i \in DOMAIN Subsets(name) |->
                          IWSLT14Xml(dl_dir, pair, Subsets(name)[i], lang_target)],
     split |-> IF name = "dev" THEN "validation" ELSE "test"]

\* IWSLT14._split_generators (lines 94-131)
IWSLT14Splits(language_pair, dl_dir) ==
    LET lang_source == language_pair[1]
        lang_target == language_pair[2]
        pair == lang_source \o "-" \o lang_target
    IN << [name |-> "train",
           gen_kwargs |->
               [source_files |-> <<IWSLT14Train(dl_dir, pair, lang_source)>>,
                target_files |-> <<IWSLT14Train(dl_dir, pair, lang_target)>>,
                split |-> "train"]],
          [name |-> "validation",
           gen_kwargs |-> IWSLT14Files(dl_dir, pair, "dev", lang_source, lang_target)],
          [name |-> "test",
           gen_kwargs |-> IWSLT14Files(dl_dir, pair, "test", lang_source, lang_target)] >>

\* KFTT path_tmpl.format(split=split, lang=lang) (line 95)
KFTTPath(split, lang) == <<"kftt-data-1.0/data/orig/kyoto-", split, ".", lang>>

\* dl_manager.download(url): the local archive of that url.
Download(url) == [downloaded |-> url]

\* dl_manager.iter_archive(archive): a fresh iterator over the members of
\* the archive; call tells the iterators of one archive apart.
IterArchive(archive, call) == [archive |-> archive, call |-> call]

KFTT_DATA_URL == "http://www.phontron.com/kftt/download/kftt-data-1.0.tar.gz"

\* The position of the split in `for split in ("train", "dev", "test", "tune")`.
KFTTSplitNo(split) ==
    CHOOSE i \in 1..4 : <<"train", "dev", "test", "tune">>[i] = split

\* files[split] (lines 98-103)
KFTTFiles(split, language_pair) ==
    [source_file |-> KFTTPath(split, language_pair[1]),
     target_file |-> KFTTPath(split, language_pair[2]),
     files |-> IterArchive(Download(KFTT_DATA_URL), KFTTSplitNo(split))]

\* KFTT._split_generators (lines 91-110)
KFTTSplits(language_pair) ==
    << [name |-> "train", gen_kwargs |-> KFTTFiles("train", language_pair)],
       [name |-> "validation", gen_kwargs |-> KFTTFiles("dev", language_pair)],
       [name |-> "test", gen_kwargs |-> KFTTFiles("test", language_pair)],
       [name |-> "tune", gen_kwargs |-> KFTTFiles("tune", language_pair)] >>

\* JParaCrawl._split_generators (lines 122-134)
JParaCrawlSplits(language_pair) ==
    LET non_en == JParaCrawlNonEn(language_pair)
    IN << [name |-> "train",
           gen_kwargs |->
               [txt_file |-> <<"en-", non_en, "/en-", non_en, ".bicleaner05.txt">>,
                files |-> IterArchive(
                              Download("https://www.kecl.ntt.co.jp/icl/lirg/jparacrawl/"
                                           \o "release/3.0/bitext/en-" \o non_en
                                           \o ".tar.gz"), 1)]] >>

\* _split_generators of the builder of a constructed config.
SplitGenerators ==
    /\ pc = "configured"
    /\ LET language_pair == ret[1].language_pair
       IN splits' = IF corpus = "IWSLT14"
                    THEN IWSLT14Splits(language_pair, arg[1].dl_dir)
                    ELSE IF corpus = "KFTT" THEN KFTTSplits(language_pair)
                    ELSE JParaCrawlSplits(language_pair)
    /\ pc' = "located"
    /\ UNCHANGED <<corpus, dfs, error, out, arg, ret, kfttVars, iwsltVars>>

BuilderNext == Construct \/ SplitGenerators

(***************************************************************************)
(* The two parsers called on one file.                                     *)
(***************************************************************************)
\* The function fn called on a file of at most n of the elements elems.
CallInit(fn, elems, n) ==
    /\ corpus = fn
    /\ pc = "call"
    /\ error = ""
    /\ \E k \in 0..n : \E c \in [1..k -> elems] : arg = Some(c)
    /\ ret = None
    /\ splits = <<>>
    /\ out = <<>>
    /\ files = <<>> /\ source_sentences = None /\ target_sentences = None /\ idx = 0
    /\ source_files = <<>> /\ target_files = <<>>
    /\ src = <<>> /\ trg = <<>> /\ it = 0 /\ id_ = 0 /\ dfs = None /\ fs = None

ParseDocInit == CallInit("_parse_doc", TagLines, MaxLines)

ParseXmlInit == CallInit("_parse_xml", XmlNodes, MaxNodes)

CallParseDoc ==
    /\ corpus = "_parse_doc" /\ pc = "call"
    /\ ret' = Some(_parse_doc(arg[1]).docs)
    /\ pc' = "returned"
    /\ UNCHANGED <<corpus, dfs, error, out, arg, splits, kfttVars, iwsltVars>>

\* An exception of the parser leaves no mapping behind.
CallParseXml ==
    /\ corpus = "_parse_xml" /\ pc = "call"
    /\ LET r == _parse_xml(arg[1])
       IN IF r.err = ""
          THEN ret' = Some(r.docs) /\ pc' = "returned" /\ UNCHANGED error
          ELSE ret' = None /\ pc' = "failed" /\ error' = r.err
    /\ UNCHANGED <<corpus, dfs, out, arg, splits, kfttVars, iwsltVars>>

(***************************************************************************)
(* JParaCrawl._generate_examples                                           *)
(* The archive members are (path, file) as in KFTT; the table is read by   *)
(* pandas from the path on disk, not from the member.  A float is <<x>>    *)
(* with x its digits, and a missing cell is the float nan: read_csv turns  *)
(* an empty field into nan (na_values=""), so no cell is an empty string.  *)
(***************************************************************************)
Float(x) == <<x>>

NaN == Float("nan")

\* The language pairs a JParaCrawlConfig accepts.
JParaPairs == {lp \in {"en", "ja", "zh"} \X {"en", "ja", "zh"} : JParaCrawlValid(lp)}

\* txt_file, as the locator passes it in gen_kwargs.
JParaTxtFile(language_pair) ==
    PathString(JParaCrawlSplits(language_pair)[1].gen_kwargs.txt_file)

\* The rows of the table: the columns url, probability, en and the one
\* named by non_en; the texts are kept as read, blanks included.
JParaRows ==
    [url : {<<"u">>}, probability : {Float("0.5")},
     en : {<<"a">>, <<" ", "a">>, NaN}, non_en : {<<"a">>, <<" ", "a">>, NaN}]

\* pd.read_csv(path, ...) (lines 143-154): the path is not a file on disk,
\* or the file holds any table of at most MaxRows rows.
ReadCsv(path) ==
    {[err |-> "FileNotFoundError", rows |-> <<>>]}
        \cup {[err |-> "", rows |-> t] : t \in SeqsUpTo(JParaRows, MaxRows)}

JParaInit ==
    /\ corpus = "jparacrawl"
    /\ pc = "scan"
    /\ error = ""
    /\ out = <<>>
    /\ \E lp \in JParaPairs :
          /\ ret = Some([name |-> PairName(lp), language_pair |-> lp])
          /\ files \in SeqsUpTo([path : {JParaTxtFile(lp), other_file},
                                  content : {<<"a">>}], Cardinality(Paths))
    /\ idx = 0
    /\ source_sentences = None /\ target_sentences = None
    /\ source_files = <<>> /\ target_files = <<>>
    /\ src = <<>> /\ trg = <<>> /\ it = 0 /\ id_ = 0 /\ dfs = None /\ fs = None
    /\ arg = None /\ splits = <<>>

\* One iteration of `for path, file in files` (lines 140-155): the member
\* named txt_file is handed to read_csv, which opens the path, and the loop
\* breaks; any other member is passed over.
JParaScan ==
    /\ corpus = "jparacrawl" /\ pc = "scan"
    /\ files # <<>>
    /\ files' = Tail(files)
    /\ IF Head(files).path = JParaTxtFile(ret[1].language_pair)
       THEN \E r \in ReadCsv(Head(files).path) :
                IF r.err # ""
                THEN pc' = "failed" /\ error' = r.err /\ UNCHANGED dfs
                ELSE pc' = "rows" /\ dfs' = Some(r.rows) /\ UNCHANGED error
       ELSE UNCHANGED <<pc, error, dfs>>
    /\ UNCHANGED <<corpus, out, source_sentences, target_sentences, idx,
                   iwsltVars, callVars>>

\* The archive is exhausted without a break: `for df in dfs` (line 157)
\* reads a local that was never assigned.
JParaScanEnd ==
    /\ corpus = "jparacrawl" /\ pc = "scan"
    /\ files = <<>>
    /\ pc' = "failed"
    /\ error' = "UnboundLocalError"
    /\ UNCHANGED <<corpus, dfs, out, kfttVars, iwsltVars, callVars>>

\* result (lines 159-163); the translation is a dict, kept as the sequence
\* of its <<key, value>> entries.
JParaResult(row, non_en) ==
    [url |-> row.url,
     probability |-> row.probability,
     translation |-> << <<"en", row.en>>, <<non_en, row.non_en>> >>]

\* all(v is not None for v in result.values()) (line 165)
JParaKeep(result) == \A k \in DOMAIN result : result[k] # None

\* One row of `for df in dfs: for idx, row in df.iterrows()` (lines
\* 157-166); the index runs on from one chunk to the next.
JParaRow ==
    /\ corpus = "jparacrawl" /\ pc = "rows"
    /\ idx < Len(dfs[1])
    /\ LET result == JParaResult(dfs[1][idx + 1],
                                 JParaCrawlNonEn(ret[1].language_pair))
       IN out' = IF JParaKeep(result)
                 THEN Append(out, [id_ |-> idx, rec |-> result])
                 ELSE out
    /\ idx' = idx + 1
    /\ UNCHANGED <<corpus, dfs, pc, error, files, source_sentences, target_sentences,
                   iwsltVars, callVars>>

JParaFinish ==
    /\ corpus = "jparacrawl" /\ pc = "rows"
    /\ idx >= Len(dfs[1])
    /\ pc' = "done"
    /\ UNCHANGED <<corpus, dfs, error, out, kfttVars, iwsltVars, callVars>>

JParaNext == JParaScan \/ JParaScanEnd \/ JParaRow \/ JParaFinish

(***************************************************************************)
(* Specification of the generators.                                        *)
(***************************************************************************)
Init == KFTTInit \/ IWSLTInit \/ JParaInit

Next == KFTTNext \/ IWSLTNext \/ JParaNext

Spec == Init /\ [][Next]_vars

SpecSplit == SplitInit /\ [][IWSLTNext]_vars

SpecPair == PairInit /\ [][IWSLTNext]_vars

SpecBuilder == BuilderInit /\ [][BuilderNext]_vars

SpecParseDoc == ParseDocInit /\ [][CallParseDoc]_vars

SpecParseXml == ParseXmlInit /\ [][CallParseXml]_vars

(***************************************************************************)
(* Properties of the generators.                                           *)
(***************************************************************************)
\* The two texts of a yielded record.
Texts2(r) ==
    IF corpus = "jparacrawl"
    THEN <<r.rec.translation[1][2], r.rec.translation[2][2]>>
    ELSE <<r.rec.translation.source, r.rec.translation.target>>

\* A text is there and is not the empty string.
NonEmptyText(t) == t # <<>> /\ t # NaN

Trimmed(t) == t = <<>> \/ (~IsSpace(t[1]) /\ ~IsSpace(t[Len(t)]))

\* The entries of the first n entries of s whose key t holds too, in order.
CommonEntries(s, n, t) ==
    SelectSeq(SubSeq(s, 1, n), LAMBDA e : e[1] \in DictKeys(t))

\* C1: keyed alignment.  The records yielded from the file pair are exactly
\* one per entry of src visited so far whose key trg holds too, and nothing
\* else: as many records as such entries, in the order of src, the j-th
\* with the key of the j-th such entry as id and the two texts src[k] and
\* trg[k].  Once src is exhausted the ids of the records are exactly the keys
\* the two mappings share, each once, so a key of one side only gives no
\* record, and no error.
C1_KeyedAlignment ==
    (corpus = "iwslt14" /\ pc \in {"items", "yielded", "next", "done"}) =>
        LET common == CommonEntries(src, it, trg)
        IN /\ Len(out) = Len(common)
           /\ \A j \in DOMAIN out :
                /\ out[j].rec.id = common[j][1]
                /\ out[j].rec.translation.source = common[j][2]
                /\ <<common[j][1], out[j].rec.translation.target>>
                      \in {trg[i] : i \in DOMAIN trg}
           /\ it = Len(src) =>
                /\ {out[j].rec.id : j \in DOMAIN out}
                      = DictKeys(src) \cap DictKeys(trg)
                /\ Len(out) = Cardinality(DictKeys(src) \cap DictKeys(trg))
           /\ error = ""

\* As in S = {a: x, b: y}, T = {a: X, c: Z}: two entries on each side, one
\* key shared, a one-sided key on each side, texts that differ; one record.
C1_Witness ==
    /\ corpus = "iwslt14" /\ pc = "next" /\ it = Len(src)
    /\ Len(src) = 2 /\ Len(trg) = 2
    /\ Cardinality(DictKeys(src) \cap DictKeys(trg)) = 1
    /\ src[1][1] \in DictKeys(trg)
    /\ Len(out) = 1 /\ out[1].rec.id = src[1][1]
    /\ out[1].rec.translation.source = src[1][2]
    /\ out[1].rec.translation.target = DictGet(trg, src[1][1])
    /\ out[1].rec.translation.source # out[1].rec.translation.target

\* C2: every yielded record has non-empty text on both sides.
C2_NonEmptyTexts ==
    \A i \in DOMAIN out :
        NonEmptyText(Texts2(out[i])[1]) /\ NonEmptyText(Texts2(out[i])[2])

FileLines(pieces) ==
    IF pieces[Len(pieces)] = <<>> THEN SubSeq(pieces, 1, Len(pieces) - 1)
    ELSE pieces

\* C4: positional alignment.  For a source file and a target file of N
\* lines each the output has at most N records, the record with id i pairs
\* line i of the source with line i of the target, and the ids grow strictly
\* along the output (so the records are in file order).
C4_PositionalLines ==
    (corpus = "kftt" /\ pc \in {"emit", "done"}) =>
        LET s == FileLines(source_sentences[1])
            t == FileLines(target_sentences[1])
        IN Len(s) = Len(t) =>
             /\ Len(out) <= Len(s)
             /\ \A i \in DOMAIN out :
                  /\ out[i].id_ \in 0..(Len(s) - 1)
                  /\ out[i].rec.translation.source = s[out[i].id_ + 1]
                  /\ out[i].rec.translation.target = t[out[i].id_ + 1]
             /\ \A i, j \in DOMAIN out : i < j => out[i].id_ < out[j].id_

\* What holds of the pieces of split("\n") instead: the record with id i
\* pairs piece i of both sides, the last empty piece included.
C4_PositionalPairs ==
    (corpus = "kftt" /\ pc \in {"emit", "done"}) =>
        LET s == source_sentences[1]
            t == target_sentences[1]
        IN /\ Len(s) = Len(t)
           /\ Len(out) <= Len(s)
           /\ \A i \in DOMAIN out :
                /\ out[i].id_ \in 0..(Len(s) - 1)
                /\ out[i].rec.translation.source = s[out[i].id_ + 1]
                /\ out[i].rec.translation.target = t[out[i].id_ + 1]
           /\ \A i, j \in DOMAIN out : i < j => out[i].id_ < out[j].id_

\* Two records of different pieces.
C4_Witness ==
    /\ corpus = "kftt" /\ pc = "done"
    /\ Len(out) = 2
    /\ out[1].rec.translation.source # out[2].rec.translation.source
    /\ out[1].rec.translation.source # out[1].rec.translation.target

\* C9 as stated: in every corpus the two texts of a yielded record carry no
\* leading and no trailing whitespace.
C9_AllCorporaTrimmed ==
    \A i \in DOMAIN out : Trimmed(Texts2(out[i])[1]) /\ Trimmed(Texts2(out[i])[2])

\* C9 amended: the two texts of a record IWSLT14 yields carry no leading and
\* no trailing whitespace (KFTT yields its lines as split and JParaCrawl its
\* cells as read, untrimmed).
C9_IWSLTTrimmed ==
    corpus = "iwslt14" =>
        \A i \in DOMAIN out : Trimmed(Texts2(out[i])[1]) /\ Trimmed(Texts2(out[i])[2])

\* A record whose source text came from the padded text " b ".
C9_Witness ==
    /\ corpus = "iwslt14"
    /\ \E i \in DOMAIN out : Texts2(out[i])[1] = <<"b">>

(***************************************************************************)
(* Properties of the generator on one pair of structured-doc files.        *)
(***************************************************************************)
\* A doc element without docid, or a seg without id inside a doc.
Malformed(nodes) ==
    \E p \in DOMAIN nodes :
        \/ nodes[p].name = "doc" /\ "docid" \notin DOMAIN nodes[p].attrs
        \/ /\ nodes[p].name = "seg" /\ "id" \notin DOMAIN nodes[p].attrs
           /\ \E q \in 1..(p - 1) : nodes[q].name = "doc"

\* C8: when a file of the pair has a doc without docid or a seg without id,
\* the generator yields no record of the pair and ends with the KeyError:
\* it never reaches the alignment, and no mapping of the malformed file is
\* built (src is assigned only when it is the target file that fails).
C8_MissingIdIsFatal ==
    (fs # None /\ (Malformed(fs[1].source) \/ Malformed(fs[1].target))) =>
        /\ pc \in {"next", "failed"}
        /\ pc = "next" => source_files # <<>>
        /\ pc = "failed" => error = "KeyError"
        /\ out = <<>> /\ trg = <<>>
        /\ Malformed(fs[1].source) => src = <<>>
        /\ src # <<>> => pc = "failed" /\ src = _parse_xml(fs[1].source).docs

C8_Witness ==
    /\ fs # None /\ pc = "failed" /\ error = "KeyError"
    /\ ~Malformed(fs[1].source) /\ Malformed(fs[1].target)
    /\ _parse_xml(fs[1].source).docs # <<>>
    /\ src = _parse_xml(fs[1].source).docs /\ trg = <<>>
    /\ out = <<>>

(***************************************************************************)
(* Properties of the configs and the locators.                             *)
(***************************************************************************)
ListedLanguages ==
    {"ar", "de", "es", "fa", "he", "it", "nl", "pl", "pt-br", "ro", "ru", "sl", "tr",
     "zh"}

AllowedPairs(c) ==
    IF c = "IWSLT14"
    THEN {<<l, "en">> : l \in ListedLanguages} \cup {<<"en", l>> : l \in ListedLanguages}
    ELSE IF c = "KFTT" THEN {<<"en", "ja">>, <<"ja", "en">>}
    ELSE {<<"en", "ja">>, <<"en", "zh">>, <<"ja", "en">>, <<"zh", "en">>}

\* C5: constructing a config with a pair outside the corpus's allowed set
\* fails in the constructor with an AssertionError, leaves no config and is
\* followed by no locator call; with a pair inside the set it gives a config
\* that stores the pair unchanged.  No config ever holds an invalid pair.
C5_ConfigValidation ==
    /\ pc # "new" =>
          IF arg[1].language_pair \in AllowedPairs(corpus)
          THEN /\ pc \in {"configured", "located"}
               /\ error = ""
               /\ ret # None
               /\ ret[1].language_pair = arg[1].language_pair
          ELSE /\ pc = "failed"
               /\ error = "AssertionError"
               /\ ret = None
               /\ splits = <<>>
               /\ ~ENABLED SplitGenerators
    /\ ret # None => ret[1].language_pair \in AllowedPairs(corpus)

C5_Witness ==
    /\ corpus = "IWSLT14" /\ pc = "failed" /\ error = "AssertionError"
    /\ arg[1].language_pair = <<"ja", "en">>
    /\ ret = None

\* Two paths that differ in one piece only, the language, which is the last
\* piece or the one before the extension.
DifferOnlyInLanguage(s, t, lang_source, lang_target) ==
    /\ Len(s) = Len(t)
    /\ \E k \in DOMAIN s :
        /\ k >= Len(s) - 1
        /\ s[k] = lang_source /\ t[k] = lang_target
        /\ \A j \in DOMAIN s : j # k => s[j] = t[j]

ExpectedIWSLT14(dl_dir, lang_source, lang_target, split, lang) ==
    LET pair == lang_source \o "-" \o lang_target
        xml(subset) ==
            dl_dir \o "/" \o pair \o "/IWSLT14." \o subset \o "." \o pair \o "." \o lang
                \o ".xml"
    IN IF split = "train"
       THEN <<dl_dir \o "/" \o pair \o "/train.tags." \o pair \o "." \o lang>>
       ELSE IF split = "validation"
       THEN <<xml("TED.dev2010"), xml("TEDX.dev2012")>>
       ELSE <<xml("TED.tst2010"), xml("TED.tst2011"), xml("TED.tst2012")>>

KFTTSplitFile(name) == IF name = "validation" THEN "dev" ELSE name

\* C10: the locator of a valid pair (source, target).  IWSLT14 returns the
\* splits train, validation and test, with 1, 2 and 3 files on each side;
\* the files of a side are exactly the ones the pair and the split require,
\* and the i-th source and target paths differ only in the language.  KFTT
\* returns train, validation, test and tune, each with the one source and
\* the one target path of its split file (train, dev, test, tune).
C10_Locator ==
    (pc = "located" /\ corpus \in {"IWSLT14", "KFTT"}) =>
        LET lang_source == ret[1].language_pair[1]
            lang_target == ret[1].language_pair[2]
        IN IF corpus = "IWSLT14"
           THEN /\ [i \in DOMAIN splits |-> splits[i].name]
                      = <<"train", "validation", "test">>
                /\ \A i \in DOMAIN splits :
                     LET g == splits[i].gen_kwargs
                     IN /\ g.split = splits[i].name
                        /\ Len(g.source_files) = i
                        /\ Len(g.target_files) = i
                        /\ [k \in DOMAIN g.source_files |-> PathString(g.source_files[k])]
                              = ExpectedIWSLT14(arg[1].dl_dir, lang_source, lang_target,
                                                g.split, lang_source)
                        /\ [k \in DOMAIN g.target_files |-> PathString(g.target_files[k])]
                              = ExpectedIWSLT14(arg[1].dl_dir, lang_source, lang_target,
                                                g.split, lang_target)
                        /\ \A k \in DOMAIN g.source_files :
                             DifferOnlyInLanguage(g.source_files[k], g.target_files[k],
                                                  lang_source, lang_target)
           ELSE /\ [i \in DOMAIN splits |-> splits[i].name]
                      = <<"train", "validation", "test", "tune">>
                /\ \A i \in DOMAIN splits :
                     LET g == splits[i].gen_kwargs
                         file == KFTTSplitFile(splits[i].name)
                     IN /\ DOMAIN g = {"source_file", "target_file", "files"}
                        /\ g.files = IterArchive(Download(KFTT_DATA_URL), i)
                        /\ PathString(g.source_file)
                              = "kftt-data-1.0/data/orig/kyoto-" \o file \o "." \o lang_source
                        /\ PathString(g.target_file)
                              = "kftt-data-1.0/data/orig/kyoto-" \o file \o "." \o lang_target
                        /\ DifferOnlyInLanguage(g.source_file, g.target_file,
                                                lang_source, lang_target)

C10_Witness ==
    /\ pc = "located" /\ corpus = "IWSLT14"
    /\ ret[1].language_pair = <<"de", "en">>
    /\ Len(splits) = 3
    /\ Len(splits[3].gen_kwargs.source_files) = 3
    /\ PathString(splits[2].gen_kwargs.target_files[2])
          = "/cache/extracted/1/de-en/IWSLT14.TEDX.dev2012.de-en.en.xml"

(***************************************************************************)
(* Properties of the parsers.                                              *)
(***************************************************************************)
Entries(d) == {d[i] : i \in DOMAIN d}

UniqueKeys(d) == \A i, j \in DOMAIN d : d[i][1] = d[j][1] => i = j

\* Bare line i directly follows the boundary marker at p, or the run of
\* bare lines that starts right after it.
FollowsMarker(lines, p, i) ==
    /\ p < i /\ lines[p].tag = "url"
    /\ \A j \in (p + 1)..i : lines[j].tag = ""

\* The boundary markers up to position p.
MarkersUpTo(lines, p) == Cardinality({q \in 1..p : lines[q].tag = "url"})

\* C6: inline-segment extraction.  The mapping holds exactly one entry per
\* bare line that follows a boundary marker directly or through a run of
\* bare lines: its key is docid-{d}_segid-{s}, d the 1-based count of the
\* markers up to that marker and s the 1-based place of the line in the run,
\* and its value is the trimmed text of the line.  Any other line gives no
\* key.
C6_InlineSegments ==
    (corpus = "_parse_doc" /\ pc = "returned") =>
        LET lines == arg[1]
            docs == ret[1]
        IN /\ UniqueKeys(docs)
           /\ Entries(docs) =
                {<<"docid-" \o ToString(MarkersUpTo(lines, pi[1])) \o "_segid-"
                      \o ToString(pi[2] - pi[1]),
                   Strip(lines[pi[2]].text)>> :
                    pi \in {x \in (DOMAIN lines) \X (DOMAIN lines) :
                               FollowsMarker(lines, x[1], x[2])}}

C6_Witness ==
    /\ corpus = "_parse_doc" /\ pc = "returned"
    /\ [i \in DOMAIN arg[1] |-> arg[1][i].tag] = <<"url", "", "", "url", "", "">>
    /\ arg[1][2].text = <<" ", "b", " ">>
    /\ [i \in DOMAIN ret[1] |-> ret[1][i][1]]
          = <<"docid-1_segid-1", "docid-1_segid-2", "docid-2_segid-1", "docid-2_segid-2">>
    /\ ret[1][1][2] = <<"b">>

\* The doc element that holds position i: the nearest doc before it.
DocOf(nodes, i) ==
    CHOOSE p \in 1..(i - 1) :
        nodes[p].name = "doc" /\ \A q \in (p + 1)..(i - 1) : nodes[q].name # "doc"

InDoc(nodes, i) == \E p \in 1..(i - 1) : nodes[p].name = "doc"

\* The key the element at position i of a doc stands for.
KeyOf(nodes, i) ==
    LET D == nodes[DocOf(nodes, i)].attrs.docid
    IN IF nodes[i].name = "title" THEN "docid-" \o D \o "_title"
       ELSE IF nodes[i].name = "description" THEN "docid-" \o D \o "_desc"
       ELSE "docid-" \o D \o "_segid-" \o nodes[i].attrs.id

Keyed(nodes) ==
    {i \in DOMAIN nodes :
        nodes[i].name \in {"title", "description", "seg"} /\ InDoc(nodes, i)}

\* C7: structured-doc extraction.  For a file whose docs carry a docid and
\* whose segs carry an id, the keys of the mapping are exactly
\* docid-{D}_title, docid-{D}_desc and docid-{D}_segid-{S} of the titles,
\* descriptions and segs of its docs, each held once, and each value is the
\* trimmed text of an element of that key; no other key is produced.
C7_StructuredKeys ==
    (corpus = "_parse_xml" /\ pc # "call" /\ ~Malformed(arg[1])) =>
        LET nodes == arg[1]
        IN /\ pc = "returned"
           /\ UniqueKeys(ret[1])
           /\ DictKeys(ret[1]) = {KeyOf(nodes, i) : i \in Keyed(nodes)}
           /\ \A e \in Entries(ret[1]) :
                \E i \in Keyed(nodes) :
                    KeyOf(nodes, i) = e[1] /\ Strip(nodes[i].text) = e[2]

C7_Witness ==
    /\ corpus = "_parse_xml" /\ pc = "returned"
    /\ [i \in DOMAIN arg[1] |-> arg[1][i].name]
          = <<"doc", "title", "description", "seg", "seg">>
    /\ arg[1][1].attrs = [docid |-> "5"]
    /\ arg[1][4].attrs = [id |-> "1"]
    /\ arg[1][5].attrs = [id |-> "2"]
    /\ Len(ret[1]) = Len(arg[1]) - 1
    /\ DictKeys(ret[1])
          = {"docid-5_title", "docid-5_desc", "docid-5_segid-1", "docid-5_segid-2"}

\* The last element, in document order, that stands for the key of the
\* element at position i.
LastOfKey(nodes, i) ==
    CHOOSE j \in Keyed(nodes) :
        /\ KeyOf(nodes, j) = KeyOf(nodes, i)
        /\ \A m \in Keyed(nodes) : KeyOf(nodes, m) = KeyOf(nodes, i) => m <= j

\* Elements i < j of one doc that stand for the same key.
Duplicates(nodes) ==
    {ij \in Keyed(nodes) \X Keyed(nodes) :
        /\ ij[1] < ij[2]
        /\ DocOf(nodes, ij[1]) = DocOf(nodes, ij[2])
        /\ KeyOf(nodes, ij[1]) = KeyOf(nodes, ij[2])}

\* C11: last wins.  For a file whose docs carry a docid and whose segs carry
\* an id, _parse_xml returns without an error however many titles,
\* descriptions or segs of one id a doc holds; the mapping holds each key
\* once, and its value is the trimmed text of the last element of that key
\* in document order.
C11_LastWins ==
    (corpus = "_parse_xml" /\ pc # "call" /\ ~Malformed(arg[1])) =>
        LET nodes == arg[1]
        IN /\ pc = "returned" /\ error = ""
           /\ UniqueKeys(ret[1])
           /\ \A i \in Keyed(nodes) :
                /\ DictHas(ret[1], KeyOf(nodes, i))
                /\ DictGet(ret[1], KeyOf(nodes, i))
                      = Strip(nodes[LastOfKey(nodes, i)].text)

\* A doc with two titles and two segs of id 1, of different texts: the
\* mapping holds the second title and the second seg.
C11_Witness ==
    /\ corpus = "_parse_xml" /\ pc = "returned"
    /\ [i \in DOMAIN arg[1] |-> arg[1][i].name]
          = <<"doc", "title", "title", "seg", "seg">>
    /\ <<2, 3>> \in Duplicates(arg[1]) /\ <<4, 5>> \in Duplicates(arg[1])
    /\ arg[1][2].text = <<"a">> /\ arg[1][3].text = <<" ", "b", " ">>
    /\ arg[1][4].text = <<" ", "b", " ">> /\ arg[1][5].text = <<"a">>
    /\ ret[1] = << <<"docid-5_title", <<"b">> >>, <<"docid-5_segid-1", <<"a">> >> >>

\* Two descriptions in one doc: the mapping holds the second.
C11_WitnessDesc ==
    /\ corpus = "_parse_xml" /\ pc = "returned"
    /\ \E ij \in Duplicates(arg[1]) :
           /\ arg[1][ij[1]].name = "description"
           /\ Strip(arg[1][ij[1]].text) # Strip(arg[1][ij[2]].text)
           /\ DictGet(ret[1], KeyOf(arg[1], ij[2])) = Strip(arg[1][ij[2]].text)

(***************************************************************************)
(* Properties of the generator over the file pairs of one split.           *)
(***************************************************************************)
\* C12: the emitted ids of a split.  At every point of the generation the
\* n-th emitted record has id n - 1, whatever pair it came from: the ids
\* are 0, 1, 2, ... in emission order and no two records share one, also
\* when their id fields (the structured keys) are equal.  The counter is
\* the id of the record the consumer holds while the generator is suspended
\* at the yield, and the number of records emitted so far otherwise.
C12_ConsecutiveIds ==
    corpus = "iwslt14" =>
        /\ id_ = IF pc = "yielded" THEN Len(out) - 1 ELSE Len(out)
        /\ \A n \in DOMAIN out : out[n].id_ = n - 1
        /\ \A m, n \in DOMAIN out : out[m].id_ = out[n].id_ => m = n

\* The counter never goes back, in particular not between two file pairs.
C12_NeverReset == [][corpus = "iwslt14" => id_' >= id_]_vars

\* Two pairs were read, each gave a record, and both records carry the same
\* structured key (within one pair a key occurs once): their ids are 0, 1.
C12_Witness ==
    /\ corpus = "iwslt14" /\ pc = "done" /\ fs = None
    /\ Len(out) = 2
    /\ out[1].rec.id = out[2].rec.id
    /\ out[1].id_ = 0 /\ out[2].id_ = 1

(***************************************************************************)
(* Properties of the KFTT archive scan.                                    *)
(***************************************************************************)
\* No member of that path is left in the archive.
NoneLeft(path) == \A i \in DOMAIN files : files[i].path # path

\* The file was not read and no member of its path is left to read; in the
\* initial state this says that the archive lacks the file.
Lacks(sentences, path) == sentences = None /\ NoneLeft(path)

LacksAFile ==
    Lacks(source_sentences, source_file) \/ Lacks(target_sentences, target_file)

BothRead == source_sentences # None /\ target_sentences # None

\* The states of a KFTT generation: the scan goes on only while a file is
\* unread; a record exists only after both files were read and their line
\* counts compared equal; with a file lacking, nothing is emitted and the
\* generation is on its way to, or has ended with, the TypeError.
C13_States ==
    corpus = "kftt" =>
        /\ pc = "scan" => ~BothRead
        /\ pc \in {"emit", "done"} =>
              BothRead /\ Len(source_sentences[1]) = Len(target_sentences[1])
        /\ out # <<>> => pc \in {"emit", "done"}
        /\ LacksAFile =>
              /\ out = <<>>
              /\ pc \in {"scan", "check", "failed"}
              /\ pc = "check" => KFTTAssertSizes = "TypeError"
              /\ pc = "failed" => error = "TypeError"

\* The steps of a KFTT generation: a step that reads takes the first member
\* left, and only while a file is unread; the members go in archive order;
\* a lacking file stays lacking; a record is added only past the comparison.
C13_Steps ==
    corpus = "kftt" =>
        /\ files' # files => files # <<>> /\ files' = Tail(files) /\ ~BothRead
        /\ LacksAFile => LacksAFile'
        /\ out' # out => pc = "emit" /\ BothRead

\* C13: the archive scan.  Members are read in archive order and none is
\* read once both files were read; no record is emitted before both were
\* read and their line counts compared; when the archive lacks the source
\* or the target file the generation ends with an error (the TypeError of
\* len(None)) and emits no record.
C13_ScanThenCompare == [][C13_Steps]_vars /\ []C13_States

\* The archive held the source file and another member but no target file:
\* all of it was scanned and the generation failed without a record.
C13_Witness ==
    /\ corpus = "kftt" /\ pc = "failed" /\ error = "TypeError"
    /\ source_sentences # None /\ Len(source_sentences[1]) >= 2
    /\ target_sentences = None
    /\ files = <<>> /\ out = <<>>

\* Both files were read, a member was left unread, and records came out.
C13_WitnessStop ==
    /\ corpus = "kftt" /\ pc = "done"
    /\ files # <<>> /\ Len(out) >= 2

====
